---------------------------- MODULE Spec2Model ----------------------------
(***************************************************************************)
(* WEMS Grafana datasource backend (package plugin).                       *)
(*                                                                         *)
(* The repository holds two variants of the backend that serve requests:   *)
(*   - src/unnamed/part_000, lines 1-612: one Datasource instance with a   *)
(*     mutex-guarded token cache (getTokenIfNeeded) used by query,         *)
(*     CallResource and CheckHealth.  Specification: Spec.                 *)
(*   - src/pkg/plugin/datasource.go: the token is fetched once in          *)
(*     NewDatasource; query and CallResource use it as it is, CheckHealth  *)
(*     posts a token request of its own.  Specification: SpecPkg.          *)
(*                                                                         *)
(* Time is counted in minutes.  Each caller is one goroutine serving one   *)
(* inbound request at a time.                                              *)
(***************************************************************************)
EXTENDS Integers, Sequences, FiniteSets, TLC

VARIABLES
    now,          \* time.Now(), in minutes
    ticks,        \* number of clock advances so far (bounds the run)
    token,        \* Datasource.token
    tokenExpiry,  \* Datasource.tokenExpiry
    mutex,        \* Datasource.mutex: the caller holding it, or NoCaller
    pc,           \* per caller: position in the handler
    call,         \* per caller: locals of the running handler and its history
    series,       \* one decoded series response and the frame built from it
    fan,          \* appliance-list: the enrichment fan-out of one call
    batch,        \* QueryData: the loop over the queries of one request
    conf,         \* NewDatasource: the configured base URL and d.baseURL
    editor        \* QueryEditor: the query of the panel and its selections

\* The variables the handlers of the instance leave alone.
auxVars == <<series, fan, batch, conf, editor>>

\* The fields of the instance and the handlers running on it.
instVars == <<now, ticks, token, tokenExpiry, mutex, pc, call>>

vars == <<now, ticks, token, tokenExpiry, mutex, pc, call, auxVars>>

---------------------------------------------------------------------------
(* Bounds of the model *)

NumCallers == 2
MaxTicks == 2
MaxPoints == 2
MaxStrLen == 2

(* Program constants *)

TokenValidityMin == 30
SafetyMarginMin == 1
PkgTokenValidityMin == 20
UpstreamValidityMin == 20

Callers == 1..NumCallers
NoCaller == 0

\* The clock advances by one minute, or by a long step that brings a token
\* stored at the previous instant to two minutes before its expiry.
ClockSteps == {1, TokenValidityMin - 2 * SafetyMarginMin}

\* Bodies the token endpoint may answer with on status 200.  The body is
\* taken verbatim as the token, so an empty body is an empty token.
TokenBodies == {"", "tokA", "tokB"}

\* What a reader racing with the store of d.token may observe besides the
\* old and the new string: pointer and length of two different strings.
Torn == "torn"

NoToken == "none"

---------------------------------------------------------------------------
(* Inputs of the handlers *)

Ids == {"", "x"}

\* WEMSQueryModel: the four identifying fields of a query descriptor.
QueryModels ==
    [EndpointID : Ids, ApplianceID : Ids, ServiceURI : Ids, DataPoint : Ids]

\* req.Path of a resource call, and the query parameters of req.URL.
Paths ==
    {"endpoint-list", "appliance-list", "service-list", "datapoint-list",
     "datapoint-unit"}

ResourceParams == [endpointId : Ids, applianceId : Ids, serviceUri : Ids]

\* Statuses other than 200 the upstream may answer with.
UpstreamErrStatus == {"401", "503"}

\* Why a token request fails.
TokenFailures == {"transport", "status", "read"}

\* What the primary GET of an operation may come back with.
GetOutcomes ==
    {"transport", "read", "decode", "ok"} \cup UpstreamErrStatus

---------------------------------------------------------------------------
(* Per-call record: the handler's locals and what it did so far *)

FreshCall ==
    [op       |-> "none",     \* "query", "resource" or "health"
     path     |-> "none",     \* req.Path of a resource call once read
     body     |-> NoToken,    \* bodyBytes of the token response being stored
     auth     |-> NoToken,    \* d.token as read for the Authorization header
     res      |-> "none",     \* status of the response returned to the host
     checked  |-> FALSE,      \* getTokenIfNeeded was called and returned nil
     chkFresh |-> FALSE,      \* at the check: now < tokenExpiry - 1 minute
     chkTok   |-> FALSE,      \* at the check: d.token was not empty
     posted   |-> 0,          \* token POSTs issued by this call
     sent     |-> 0,          \* data/list GETs issued by this call
     stale    |-> FALSE,      \* at the GET: now >= tokenExpiry - 1 minute
     tokErr   |-> FALSE,      \* getTokenIfNeeded returned an error
     invalid  |-> FALSE,      \* the call's input lacks a required field
     behind   |-> "none",     \* outcome of the refresh this call waited behind
     behindAt |-> 0,          \* instant at which that refresh ended
     within   |-> FALSE,      \* at the check: that refresh stored a non-empty
                              \* token less than validity - margin ago
     up       |-> "none",     \* resp.StatusCode of the primary GET of a list
     full     |-> FALSE,      \* the body of that response was read to its end
     cancelled |-> FALSE]     \* ctx of the inbound request is done

\* No series response is being converted.
NoSeries == [points |-> <<>>, state |-> "none", times |-> <<>>, values |-> <<>>]

\* No appliance-list call is past its primary GET.
NoFan ==
    [state |-> "none", flat |-> <<>>, next |-> 1, count |-> 0, gs |-> <<>>,
     ch |-> <<>>, result |-> <<>>, lookups |-> 0, status |-> "none",
     cancelled |-> FALSE]

\* No QueryData request is running.
NoBatch == [state |-> "none", queries |-> <<>>, i |-> 1, ran |-> <<>>,
            responses |-> <<>>, err |-> "none"]

\* No instance is being constructed apart from the one of Init.
NoConf ==
    [state |-> "none", configured |-> <<>>, baseURL |-> <<>>, held |-> <<>>,
     cancelled |-> FALSE, posted |-> 0, stored |-> 0]

\* No query editor is mounted.
NoEditor == [state |-> "none"]

\* The request-local state outside the handlers of this part of the model.
AuxIdle ==
    /\ series = NoSeries
    /\ fan = NoFan
    /\ batch = NoBatch
    /\ conf = NoConf
    /\ editor = NoEditor

Init ==
    /\ now = 0
    /\ ticks = 0
    /\ token \in TokenBodies
    /\ tokenExpiry = now + TokenValidityMin
    /\ mutex = NoCaller
    /\ pc = [c \in Callers |-> "idle"]
    /\ call = [c \in Callers |-> FreshCall]
    /\ AuxIdle

---------------------------------------------------------------------------
(* The clock *)

Tick ==
    /\ ticks < MaxTicks
    /\ \E d \in ClockSteps : now' = now + d
    /\ ticks' = ticks + 1
    /\ UNCHANGED <<token, tokenExpiry, mutex, pc, call, auxVars>>

---------------------------------------------------------------------------
(* Token manager: Datasource.getTokenIfNeeded *)

\* Mutant: the handler never takes the mutex.
MutexFree_Unlocked == TRUE

\* d.mutex.Lock() returns only while no other caller holds the mutex.
MutexFree == mutex = NoCaller

\* Mutant: After instead of Before in the validity test.
TokenStillValid_After ==
    token # "" /\ now > tokenExpiry - SafetyMarginMin

\* The test that lets a call return the cached token without a request.
TokenStillValid ==
    token # "" /\ now < tokenExpiry - SafetyMarginMin

\* Mutant: the validity window is not added to the instant of the refresh.
ExpiryAfterRefresh_NoWindow == now

\* d.tokenExpiry as stored by a successful refresh.
ExpiryAfterRefresh == now + TokenValidityMin

\* Mutant: a failed refresh clears the cache.
CacheAfterFailure_Cleared == <<"", 0>>

\* d.token and d.tokenExpiry after a refresh attempt that failed: the
\* handler returns before the two assignments.
CacheAfterFailure == <<token, tokenExpiry>>

\* Mutant: query reports a token error as a bad request.
TokenErrorResult_BadRequest(o) ==
    CASE o = "query"    -> "StatusBadRequest"
      [] o = "resource" -> "500"
      [] o = "health"   -> "HealthStatusError"

\* What each handler answers when getTokenIfNeeded returns an error.
TokenErrorResult(o) ==
    CASE o = "query"    -> "StatusInternal"
      [] o = "resource" -> "500"
      [] o = "health"   -> "HealthStatusError"

\* Mutant: the handler calls getTokenIfNeeded again after an error.
AfterTokenError_Again == "lock"

\* Where a handler goes on when getTokenIfNeeded returned an error: it
\* answers and returns.
AfterTokenError == "done"

\* The callers blocked in d.mutex.Lock() learn how the refresh they waited
\* behind ended (history only).
NoteWaiters(c, rec, outcome) ==
    [d \in Callers |->
        IF d = c THEN rec
        ELSE IF pc[d] = "lock"
             THEN [call[d] EXCEPT !.behind = outcome, !.behindAt = now]
             ELSE call[d]]

\* The call's record once getTokenIfNeeded has returned nil.
Passed(rec) ==
    [rec EXCEPT !.checked = TRUE, !.body = NoToken, !.chkFresh = FALSE,
                !.chkTok = FALSE, !.behind = "none"]

\* The call's record once its handler has returned status r.
Returned(rec, r) ==
    [rec EXCEPT !.res = r, !.path = "none", !.auth = NoToken,
                !.stale = FALSE,
                !.body = NoToken, !.checked = FALSE, !.chkFresh = FALSE,
                !.chkTok = FALSE, !.behind = "none", !.within = FALSE]

\* The requests client.Do sends for call c: on a context that is done it
\* returns the error of the context and sends nothing.
Started(c) == IF call[c].cancelled THEN 0 ELSE 1

\* An inbound request arrives and handler o starts on goroutine c; its
\* first statement is the call of getTokenIfNeeded.
Begin(c, o) ==
    /\ pc[c] = "idle"
    /\ call' = [call EXCEPT ![c].op = o]
    /\ pc' = [pc EXCEPT ![c] = "lock"]
    /\ UNCHANGED <<now, ticks, token, tokenExpiry, mutex, auxVars>>

Query_Begin(c) == Begin(c, "query")

CallResource_Begin(c) == Begin(c, "resource")

CheckHealth_Begin(c) == Begin(c, "health")

\* Lock, then the validity test: return nil at once, or issue the token POST
\* while keeping the mutex.
GetTokenIfNeeded_Check(c) ==
    /\ pc[c] = "lock"
    /\ MutexFree
    /\ LET seen == [call[c] EXCEPT
                       !.chkFresh = (now < tokenExpiry - SafetyMarginMin),
                       !.chkTok = (token # ""),
                       !.within = /\ call[c].behind = "ok"
                                  /\ now < call[c].behindAt + TokenValidityMin
                                             - SafetyMarginMin,
                       !.behindAt = 0]
       IN IF TokenStillValid
          THEN /\ pc' = [pc EXCEPT ![c] = "req"]
               /\ call' = [call EXCEPT ![c] = Passed(seen)]
               /\ UNCHANGED mutex
          ELSE /\ pc' = [pc EXCEPT ![c] = "post"]
               /\ call' = [call EXCEPT
                             ![c] = [seen EXCEPT !.posted = @ + Started(c)]]
               /\ mutex' = c
    /\ UNCHANGED <<now, ticks, token, tokenExpiry, auxVars>>

\* The token POST fails: transport error, status other than 200, or the
\* body cannot be read.  The handler answers with its token error.
GetTokenIfNeeded_Fail(c) ==
    /\ pc[c] = "post"
    /\ \E why \in TokenFailures :
          call' = NoteWaiters(c,
                     Returned([call[c] EXCEPT !.tokErr = TRUE],
                              TokenErrorResult(call[c].op)),
                     "failed")
    /\ token' = CacheAfterFailure[1]
    /\ tokenExpiry' = CacheAfterFailure[2]
    /\ mutex' = NoCaller
    /\ pc' = [pc EXCEPT ![c] = AfterTokenError]
    /\ UNCHANGED <<now, ticks, auxVars>>

\* The token POST answers 200 with body b; the store of d.token begins.
GetTokenIfNeeded_Response(c) ==
    /\ pc[c] = "post"
    /\ call[c].posted > 0
    /\ \E b \in TokenBodies : call' = [call EXCEPT ![c].body = b]
    /\ pc' = [pc EXCEPT ![c] = "store"]
    /\ UNCHANGED <<now, ticks, token, tokenExpiry, mutex, auxVars>>

\* d.token and d.tokenExpiry are stored, the mutex is released, nil returned.
GetTokenIfNeeded_Store(c) ==
    /\ pc[c] = "store"
    /\ token' = call[c].body
    /\ tokenExpiry' = ExpiryAfterRefresh
    /\ mutex' = NoCaller
    /\ call' = NoteWaiters(c, Passed(call[c]),
                  IF call[c].body = "" THEN "empty" ELSE "ok")
    /\ pc' = [pc EXCEPT ![c] = "req"]
    /\ UNCHANGED <<now, ticks, auxVars>>

---------------------------------------------------------------------------
(* Reads of d.token outside the mutex *)

\* query, CallResource and the enrichment goroutines read d.token without
\* holding d.mutex.  A read that overlaps the store of d.token by a refresh
\* is a data race on a two-word string: it observes the old string, the new
\* string, or the pointer of one with the length of the other.
ReadToken ==
    {token} \cup
    UNION {{call[h].body, Torn} : h \in {d \in Callers : pc[d] = "store"}}

---------------------------------------------------------------------------
(* Datasource.query *)

\* The validation of the four identifying fields.
MissingQueryField(qm) ==
    \/ qm.EndpointID = ""
    \/ qm.ApplianceID = ""
    \/ qm.ServiceURI = ""
    \/ qm.DataPoint = ""

\* resp.StatusCode for each way the primary GET may end: none without a
\* response, any status when the body breaks off while it is read.
HeaderStatus(out) ==
    CASE out = "transport"          -> {"none"}
      [] out = "read"               -> {"200"} \cup UpstreamErrStatus
      [] out \in UpstreamErrStatus  -> {out}
      [] out \in {"decode", "ok"}   -> {"200"}

\* Status of the data response for each way the series GET may end.
QueryResult(out) ==
    IF out = "ok" THEN "StatusOK" ELSE "StatusInternal"

\* query.JSON does not unmarshal.
Query_UnmarshalFail(c) ==
    /\ pc[c] = "req"
    /\ call[c].op = "query"
    /\ call' = [call EXCEPT ![c] = Returned(call[c], "StatusBadRequest")]
    /\ pc' = [pc EXCEPT ![c] = "done"]
    /\ UNCHANGED <<now, ticks, token, tokenExpiry, mutex, auxVars>>

\* A required field of the descriptor is blank.
Query_BadRequest(c) ==
    /\ pc[c] = "req"
    /\ call[c].op = "query"
    /\ \E qm \in QueryModels :
          /\ MissingQueryField(qm)
          /\ call' = [call EXCEPT
                        ![c] = Returned([call[c] EXCEPT !.invalid = TRUE],
                                        "StatusBadRequest")]
    /\ pc' = [pc EXCEPT ![c] = "done"]
    /\ UNCHANGED <<now, ticks, token, tokenExpiry, mutex, auxVars>>

\* http.NewRequestWithContext rejects the URL built from the fields.
Query_CreateFail(c) ==
    /\ pc[c] = "req"
    /\ call[c].op = "query"
    /\ \E qm \in QueryModels : ~MissingQueryField(qm)
    /\ call' = [call EXCEPT ![c] = Returned(call[c], "StatusInternal")]
    /\ pc' = [pc EXCEPT ![c] = "done"]
    /\ UNCHANGED <<now, ticks, token, tokenExpiry, mutex, auxVars>>

\* The series GET is sent with "Bearer " + d.token.
Query_Send(c) ==
    /\ pc[c] = "req"
    /\ call[c].op = "query"
    /\ \E qm \in QueryModels : ~MissingQueryField(qm)
    /\ \E t \in ReadToken :
          call' = [call EXCEPT
                     ![c].auth = t, ![c].sent = @ + Started(c),
                     ![c].stale = (now >= tokenExpiry - SafetyMarginMin)]
    /\ pc' = [pc EXCEPT ![c] = "get"]
    /\ UNCHANGED <<now, ticks, token, tokenExpiry, mutex, auxVars>>

\* The series GET ends: transport error, status other than 200, a body that
\* does not decode, or a list of points.
Query_Response(c) ==
    /\ pc[c] = "get"
    /\ call[c].op = "query"
    /\ \E out \in GetOutcomes \ {"read"} :
          \E st \in HeaderStatus(out) :
             /\ call[c].sent = 0 => out = "transport"
             /\ call' = [call EXCEPT
                           ![c] = [Returned(call[c], QueryResult(out))
                                      EXCEPT !.up = st]]
    /\ pc' = [pc EXCEPT ![c] = "done"]
    /\ UNCHANGED <<now, ticks, token, tokenExpiry, mutex, auxVars>>

---------------------------------------------------------------------------
(* Datasource.CheckHealth *)

CheckHealth_Ok(c) ==
    /\ pc[c] = "req"
    /\ call[c].op = "health"
    /\ call' = [call EXCEPT ![c] = Returned(call[c], "HealthStatusOk")]
    /\ pc' = [pc EXCEPT ![c] = "done"]
    /\ UNCHANGED <<now, ticks, token, tokenExpiry, mutex, auxVars>>

---------------------------------------------------------------------------
(* Datasource.CallResource *)

\* The paths CallResource serves.
ServedPaths ==
    {"endpoint-list", "appliance-list", "service-list", "datapoint-list"}

\* The parameter test of each list operation.
MissingParam(path, q) ==
    CASE path = "endpoint-list"  -> FALSE
      [] path = "appliance-list" -> q.endpointId = ""
      [] path = "service-list"   -> q.endpointId = "" \/ q.applianceId = ""
      [] path = "datapoint-list" ->
            q.endpointId = "" \/ q.applianceId = "" \/ q.serviceUri = ""
      [] OTHER -> FALSE

\* The paths whose 200 body is parsed before the answer is built.
ParsedPaths == {"appliance-list", "service-list"}

\* Mutant: a status other than 200 is answered with 500.
ResourceResult_Translated(path, out) ==
    CASE out \in {"transport", "read"} -> "500"
      [] out \in UpstreamErrStatus    -> "500"
      [] out = "decode" -> IF path \in ParsedPaths THEN "500" ELSE "200"
      [] out = "ok"     -> "200"

\* Status sent to the caller for each way the primary GET may end.
ResourceResult(path, out) ==
    CASE out \in {"transport", "read"} -> "500"
      [] out \in UpstreamErrStatus    -> out
      [] out = "decode" -> IF path \in ParsedPaths THEN "500" ELSE "200"
      [] out = "ok"     -> "200"

\* No branch matches req.Path.
CallResource_NotFound(c) ==
    /\ pc[c] = "req"
    /\ call[c].op = "resource"
    /\ \E path \in Paths \ ServedPaths :
          call' = [call EXCEPT
                     ![c] = [Returned(call[c], "404") EXCEPT !.path = path]]
    /\ pc' = [pc EXCEPT ![c] = "done"]
    /\ UNCHANGED <<now, ticks, token, tokenExpiry, mutex, auxVars>>

\* A required parameter of the list operation is missing.
CallResource_BadRequest(c) ==
    /\ pc[c] = "req"
    /\ call[c].op = "resource"
    /\ \E path \in ServedPaths, q \in ResourceParams :
          /\ MissingParam(path, q)
          /\ call' = [call EXCEPT
                        ![c] = Returned([call[c] EXCEPT !.invalid = TRUE],
                                        "400")]
    /\ pc' = [pc EXCEPT ![c] = "done"]
    /\ UNCHANGED <<now, ticks, token, tokenExpiry, mutex, auxVars>>

\* http.NewRequestWithContext rejects the URL built from the parameters.
CallResource_CreateFail(c) ==
    /\ pc[c] = "req"
    /\ call[c].op = "resource"
    /\ \E path \in ServedPaths, q \in ResourceParams :
          /\ ~MissingParam(path, q)
          /\ call' = [call EXCEPT ![c] = Returned(call[c], "500")]
    /\ pc' = [pc EXCEPT ![c] = "done"]
    /\ UNCHANGED <<now, ticks, token, tokenExpiry, mutex, auxVars>>

\* The primary GET of the list operation is sent with "Bearer " + d.token.
CallResource_Send(c) ==
    /\ pc[c] = "req"
    /\ call[c].op = "resource"
    /\ \E path \in ServedPaths, q \in ResourceParams, t \in ReadToken :
          /\ ~MissingParam(path, q)
          /\ call' = [call EXCEPT
                        ![c].path = path, ![c].auth = t,
                        ![c].sent = @ + Started(c),
                        ![c].stale = (now >= tokenExpiry - SafetyMarginMin)]
    /\ pc' = [pc EXCEPT ![c] = "get"]
    /\ UNCHANGED <<now, ticks, token, tokenExpiry, mutex, auxVars>>

\* The primary GET ends and the answer is sent.
CallResource_Response(c) ==
    /\ pc[c] = "get"
    /\ call[c].op = "resource"
    /\ \E out \in GetOutcomes :
          \E st \in HeaderStatus(out) :
             /\ call[c].sent = 0 => out = "transport"
             /\ call' = [call EXCEPT
                           ![c] = [Returned(call[c],
                                            ResourceResult(call[c].path, out))
                                      EXCEPT !.path = call[c].path,
                                             !.up = st,
                                             !.full = (out \notin
                                                        {"transport",
                                                         "read"})]]
    /\ pc' = [pc EXCEPT ![c] = "done"]
    /\ UNCHANGED <<now, ticks, token, tokenExpiry, mutex, auxVars>>

---------------------------------------------------------------------------
(* The handler has returned; the goroutine serves the next request. *)

Return(c) ==
    /\ pc[c] = "done"
    /\ pc' = [pc EXCEPT ![c] = "idle"]
    /\ call' = [call EXCEPT ![c] = FreshCall]
    /\ UNCHANGED <<now, ticks, token, tokenExpiry, mutex, auxVars>>

Next ==
    \/ Tick
    \/ \E c \in Callers :
          \/ Query_Begin(c)
          \/ CallResource_Begin(c)
          \/ CheckHealth_Begin(c)
          \/ GetTokenIfNeeded_Check(c)
          \/ GetTokenIfNeeded_Fail(c)
          \/ GetTokenIfNeeded_Response(c)
          \/ GetTokenIfNeeded_Store(c)
          \/ Query_UnmarshalFail(c)
          \/ Query_BadRequest(c)
          \/ Query_CreateFail(c)
          \/ Query_Send(c)
          \/ Query_Response(c)
          \/ CheckHealth_Ok(c)
          \/ CallResource_NotFound(c)
          \/ CallResource_BadRequest(c)
          \/ CallResource_CreateFail(c)
          \/ CallResource_Send(c)
          \/ CallResource_Response(c)
          \/ Return(c)

Spec == Init /\ [][Next]_vars

\* The token manager alone: every caller is a CheckHealth call, which is
\* getTokenIfNeeded and nothing else.
NextToken ==
    \/ Tick
    \/ \E c \in Callers :
          \/ CheckHealth_Begin(c)
          \/ GetTokenIfNeeded_Check(c)
          \/ GetTokenIfNeeded_Fail(c)
          \/ GetTokenIfNeeded_Response(c)
          \/ GetTokenIfNeeded_Store(c)
          \/ CheckHealth_Ok(c)
          \/ Return(c)

SpecToken == Init /\ [][NextToken]_vars

---------------------------------------------------------------------------
(* The variant of src/pkg/plugin/datasource.go *)

\* NewDatasource posts the token request itself and stores the answer with a
\* validity of 20 minutes; nothing changes token or tokenExpiry afterwards.
InitPkg ==
    /\ now = 0
    /\ ticks = 0
    /\ token \in TokenBodies
    /\ tokenExpiry = now + PkgTokenValidityMin
    /\ mutex = NoCaller
    /\ pc = [c \in Callers |-> "idle"]
    /\ call = [c \in Callers |-> FreshCall]
    /\ AuxIdle

\* query starts with the unmarshalling of query.JSON.
Pkg_Query_Begin(c) ==
    /\ pc[c] = "idle"
    /\ call' = [call EXCEPT ![c].op = "query"]
    /\ pc' = [pc EXCEPT ![c] = "req"]
    /\ UNCHANGED <<now, ticks, token, tokenExpiry, mutex, auxVars>>

\* CallResource starts with the dispatch on req.Path.
Pkg_CallResource_Begin(c) ==
    /\ pc[c] = "idle"
    /\ call' = [call EXCEPT ![c].op = "resource"]
    /\ pc' = [pc EXCEPT ![c] = "req"]
    /\ UNCHANGED <<now, ticks, token, tokenExpiry, mutex, auxVars>>

\* CheckHealth loads the settings of the request.
Pkg_CheckHealth_Begin(c) ==
    /\ pc[c] = "idle"
    /\ call' = [call EXCEPT ![c].op = "health"]
    /\ pc' = [pc EXCEPT ![c] = "settings"]
    /\ UNCHANGED <<now, ticks, token, tokenExpiry, mutex, auxVars>>

\* The settings do not load, or client id or client secret is empty.
Pkg_CheckHealth_BadSettings(c) ==
    /\ pc[c] = "settings"
    /\ \E loaded \in BOOLEAN, clientID \in Ids, clientSecret \in Ids :
          /\ ~loaded \/ clientID = "" \/ clientSecret = ""
          /\ call' = [call EXCEPT
                        ![c] = Returned(call[c], "HealthStatusError")]
    /\ pc' = [pc EXCEPT ![c] = "done"]
    /\ UNCHANGED <<now, ticks, token, tokenExpiry, mutex, auxVars>>

\* CheckHealth posts a token request of its own, outside any lock.
Pkg_CheckHealth_Post(c) ==
    /\ pc[c] = "settings"
    /\ call' = [call EXCEPT ![c].posted = @ + 1]
    /\ pc' = [pc EXCEPT ![c] = "post"]
    /\ UNCHANGED <<now, ticks, token, tokenExpiry, mutex, auxVars>>

\* The token request ends; the answer is reported and nothing is stored.
Pkg_CheckHealth_Response(c) ==
    /\ pc[c] = "post"
    /\ \E out \in {"ok", "transport", "status"} :
          call' = [call EXCEPT
                     ![c] = Returned([call[c] EXCEPT !.tokErr = (out # "ok")],
                                     IF out = "ok" THEN "HealthStatusOk"
                                     ELSE "HealthStatusError")]
    /\ pc' = [pc EXCEPT ![c] = "done"]
    /\ UNCHANGED <<now, ticks, token, tokenExpiry, mutex, auxVars>>

NextPkg ==
    \/ Tick
    \/ \E c \in Callers :
          \/ Pkg_Query_Begin(c)
          \/ Pkg_CallResource_Begin(c)
          \/ Pkg_CheckHealth_Begin(c)
          \/ Pkg_CheckHealth_BadSettings(c)
          \/ Pkg_CheckHealth_Post(c)
          \/ Pkg_CheckHealth_Response(c)
          \/ Query_UnmarshalFail(c)
          \/ Query_BadRequest(c)
          \/ Query_CreateFail(c)
          \/ Query_Send(c)
          \/ Query_Response(c)
          \/ CallResource_NotFound(c)
          \/ CallResource_BadRequest(c)
          \/ CallResource_CreateFail(c)
          \/ CallResource_Send(c)
          \/ CallResource_Response(c)
          \/ Return(c)

SpecPkg == InitPkg /\ [][NextPkg]_vars

---------------------------------------------------------------------------
(* Datasource.query: from the decoded points to the data frame *)

\* float64 values are counted in thousandths.
Scale == 10 * 10 * 10

DigitOf ==
    [ch \in {"0", "1", "2", "3", "4", "5", "6", "7", "8", "9"} |->
        CASE ch = "0" -> 0 [] ch = "1" -> 1 [] ch = "2" -> 2 [] ch = "3" -> 3
          [] ch = "4" -> 4 [] ch = "5" -> 5 [] ch = "6" -> 6 [] ch = "7" -> 7
          [] ch = "8" -> 8 [] ch = "9" -> 9]

RECURSIVE Pow10(_)
Pow10(n) == IF n = 0 THEN 1 ELSE 10 * Pow10(n - 1)

\* The characters of the string values of the model, and the strings.
Chars == {"1", "5", ".", "-", "x"}

Strings == UNION {[1..n -> Chars] : n \in 0..MaxStrLen}

\* strconv.ParseFloat on a string of Chars: an optional sign, then digits
\* with at most one point and at least one digit, up to the end of the
\* string.  ScanFloat reads from position i on.
RECURSIVE ScanFloat(_, _, _, _, _, _)
ScanFloat(s, i, sawDot, sawDigits, mant, fracDigits) ==
    IF i > Len(s)
    THEN IF sawDigits
         THEN [ok |-> TRUE, val |-> (mant * Scale) \div Pow10(fracDigits)]
         ELSE [ok |-> FALSE, val |-> 0]
    ELSE IF s[i] \in DOMAIN DigitOf
         THEN ScanFloat(s, i + 1, sawDot, TRUE, 10 * mant + DigitOf[s[i]],
                        IF sawDot THEN fracDigits + 1 ELSE fracDigits)
         ELSE IF s[i] = "." /\ ~sawDot
              THEN ScanFloat(s, i + 1, TRUE, sawDigits, mant, fracDigits)
              ELSE [ok |-> FALSE, val |-> 0]

ParseFloat(s) ==
    IF Len(s) > 0 /\ s[1] \in {"+", "-"}
    THEN LET r == ScanFloat(s, 2, FALSE, FALSE, 0, 0)
         IN IF s[1] = "-" THEN [ok |-> r.ok, val |-> 0 - r.val] ELSE r
    ELSE ScanFloat(s, 1, FALSE, FALSE, 0, 0)

\* What encoding/json stores in TimeSeriesDataPoint.Value (an interface{}):
\* a float64 for every JSON number, a bool, a string, nil for null, or a
\* map or slice for an object or array.
JsonValues ==
    [kind : {"float64"}, num : {0, 3500, 42000}]
    \cup [kind : {"bool"}, b : BOOLEAN]
    \cup [kind : {"string"}, str : Strings]
    \cup {[kind |-> "nil"], [kind |-> "object"]}

Points == [time : {0, 60}, value : JsonValues]

PointLists == UNION {[1..n -> Points] : n \in 0..MaxPoints}

\* The type switch of part_000.
CoerceValue(v) ==
    CASE v.kind = "float64" -> v.num
      [] v.kind \in {"int", "int64"} -> v.num
      [] v.kind = "bool" -> IF v.b THEN Scale ELSE 0
      [] v.kind = "string" ->
            LET r == ParseFloat(v.str) IN IF r.ok THEN r.val ELSE 0
      [] OTHER -> 0

\* The type switch of src/pkg/plugin/datasource.go: it has no bool case.
Pkg_CoerceValue(v) ==
    CASE v.kind = "float64" -> v.num
      [] v.kind \in {"int", "int64"} -> v.num
      [] v.kind = "string" ->
            LET r == ParseFloat(v.str) IN IF r.ok THEN r.val ELSE 0
      [] OTHER -> 0

\* The loop over the points: one append to times and one to values each.
RECURSIVE ConvertPoints(_, _, _)
ConvertPoints(points, i, acc) ==
    IF i > Len(points) THEN acc
    ELSE ConvertPoints(points, i + 1,
            [acc EXCEPT !.times = Append(@, points[i].time),
                        !.values = Append(@, CoerceValue(points[i].value))])

RECURSIVE Pkg_ConvertPoints(_, _, _)
Pkg_ConvertPoints(points, i, acc) ==
    IF i > Len(points) THEN acc
    ELSE Pkg_ConvertPoints(points, i + 1,
            [acc EXCEPT !.times = Append(@, points[i].time),
                        !.values = Append(@, Pkg_CoerceValue(points[i].value))])

\* A series response has been decoded into points on a constructed instance.
InitSeries ==
    /\ now = 0
    /\ ticks = 0
    /\ token = "tokA"
    /\ tokenExpiry = now + TokenValidityMin
    /\ mutex = NoCaller
    /\ pc = [c \in Callers |-> "idle"]
    /\ call = [c \in Callers |-> FreshCall]
    /\ \E p \in PointLists :
          series = [points |-> p, state |-> "decoded",
                    times |-> <<>>, values |-> <<>>]
    /\ fan = NoFan
    /\ batch = NoBatch
    /\ conf = NoConf
    /\ editor = NoEditor

\* query builds the frame from the points (part_000).
Query_BuildFrame ==
    /\ series.state = "decoded"
    /\ series' = [ConvertPoints(series.points, 1, series)
                     EXCEPT !.state = "framed"]
    /\ UNCHANGED <<instVars, fan, batch, conf, editor>>

\* query builds the frame from the points (src/pkg/plugin/datasource.go).
Pkg_Query_BuildFrame ==
    /\ series.state = "decoded"
    /\ series' = [Pkg_ConvertPoints(series.points, 1, series)
                     EXCEPT !.state = "framed"]
    /\ UNCHANGED <<instVars, fan, batch, conf, editor>>

NextSeries == Query_BuildFrame

SpecSeries == InitSeries /\ [][NextSeries]_vars

NextSeriesPkg == Pkg_Query_BuildFrame

SpecSeriesPkg == InitSeries /\ [][NextSeriesPkg]_vars

---------------------------------------------------------------------------
(* Datasource.CallResource, appliance-list: flattening and enrichment *)

MaxProcesses == 2
MaxAppliances == 2
MaxFanout == 3

\* Capacity of the channel the goroutines deliver their items on.
ChanCap == 32

\* The appliances and processes of an endpoint description.
Appliances ==
    [ID : {"a1", "a2"}, FriendlyName : {"", "Pump"},
     ApplianceReference : {0, 7}]

Processes ==
    [Name : {"", "HVAC"},
     Appliances : UNION {[1..n -> Appliances] : n \in 0..MaxAppliances}]

RECURSIVE ApplianceCount(_, _)
ApplianceCount(desc, p) ==
    IF p > Len(desc) THEN 0
    ELSE Len(desc[p].Appliances) + ApplianceCount(desc, p + 1)

\* The descriptions with at most MaxFanout appliances in all.
Descriptions ==
    {desc \in UNION {[1..n -> Processes] : n \in 0..MaxProcesses} :
        ApplianceCount(desc, 1) <= MaxFanout}

\* The friendly names a model lookup may decode.
ModelNames == {"Fronius Gen24"}

\* How a model lookup may end: transport error, status other than 200, a
\* body that does not decode, an empty friendly name, a friendly name.
\* (The request itself is always built: its URL is d.baseURL, from which the
\* token URL and the primary URL were built, followed by a decimal number.)
LookupOutcomes == {"transport", "status", "decode", "empty", "named"}

\* The nested loops over processes and appliances visit the appliances in
\* this order, each with the name of its process.
RECURSIVE FlattenFrom(_, _)
FlattenFrom(desc, p) ==
    IF p > Len(desc) THEN <<>>
    ELSE [a \in 1..Len(desc[p].Appliances) |->
             [app |-> desc[p].Appliances[a], procName |-> desc[p].Name]]
         \o FlattenFrom(desc, p + 1)

\* Mutant: the name of the process is never appended.
PreLabel_NoProcess(app, procName) ==
    IF app.FriendlyName = "" THEN <<app.ID>> ELSE <<app.FriendlyName>>

\* The label before enrichment.  A label is the sequence of the pieces that
\* fmt.Sprintf joins.
PreLabel(app, procName) ==
    LET label == IF app.FriendlyName = "" THEN <<app.ID>>
                 ELSE <<app.FriendlyName>>
    IN IF procName # "" THEN label \o <<" (", procName, ")">> ELSE label

\* Mutant: a lookup is issued for every appliance.
NeedsLookup_Always(app) == TRUE

\* Mutant: no lookup is ever issued.
NeedsLookup_Never(app) == FALSE

\* A model lookup is issued for an appliance with a model reference.
NeedsLookup(app) == app.ApplianceReference # 0

\* Mutant: the status of the lookup response is not tested.
ModelLabelOf_AnyStatus(outcome, name) ==
    IF outcome \in {"named", "status"} THEN name ELSE ""

\* modelLabel after a lookup that ended with outcome.
ModelLabelOf(outcome, name) ==
    IF outcome = "named" THEN name ELSE ""

\* The label delivered for a pre-enrichment label and a modelLabel.
FinalLabel(label, modelLabel) ==
    IF modelLabel # "" THEN label \o <<" [", modelLabel, "]">> ELSE label

\* Mutant: the goroutine reads the loop variables, which the dispatch loop
\* has moved on since.
GoroutineArgs_LoopVariable(g) == fan.flat[fan.next - 1]

\* app and procName of goroutine g: the arguments of the go statement,
\* evaluated when the goroutine is started.
GoroutineArgs(g) == fan.flat[g]

\* Mutant: the lookup request is built on context.Background().
LookupContextDone_Background == FALSE

\* ctx of the lookup requests is the context of the inbound request: it is
\* done once the request is cancelled.
LookupContextDone == fan.cancelled

\* The body of the lookup response once the lookup has ended: none without
\* a response, closed by a defer when the status is 200, left open
\* otherwise.
BodyAfterLookup(outcome) ==
    CASE outcome = "transport" -> "none"
      [] outcome = "status"    -> "open"
      [] OTHER                 -> "deferred"

\* Mutant: the collecting loop ends with the first item.
AllCollected_First == Len(fan.result) >= 1 \/ fan.count = 0

\* The collecting loop has received count items.
AllCollected == Len(fan.result) = fan.count

\* The primary GET of an appliance-list call has answered 200 with a
\* description that parsed.
InitFanout ==
    /\ now = 0
    /\ ticks = 0
    /\ token = "tokA"
    /\ tokenExpiry = now + TokenValidityMin
    /\ mutex = NoCaller
    /\ pc = [c \in Callers |-> "idle"]
    /\ call = [c \in Callers |-> FreshCall]
    /\ \E desc \in Descriptions :
          fan = [NoFan EXCEPT !.state = "dispatch",
                              !.flat = FlattenFrom(desc, 1)]
    /\ series = NoSeries
    /\ batch = NoBatch
    /\ conf = NoConf
    /\ editor = NoEditor

\* One turn of the inner loop: count++ and go func(app, proc.Name).
ApplianceList_Dispatch ==
    /\ fan.state = "dispatch"
    /\ fan.next <= Len(fan.flat)
    /\ fan' = [fan EXCEPT
                 !.next = @ + 1,
                 !.count = @ + 1,
                 !.gs = Append(@, [pc |-> "start", pre |-> <<>>,
                                   label |-> <<>>, outcome |-> "none",
                                   looked |-> 0, body |-> "none"])]
    /\ UNCHANGED <<instVars, series, batch, conf, editor>>

\* Goroutine g computes its label; with a model reference it sends the
\* lookup GET, otherwise it goes on to deliver.  On a context that is done
\* client.Do returns an error without sending.
Enrich_Label(g) ==
    /\ fan.gs[g].pc = "start"
    /\ LET e == GoroutineArgs(g)
           label == PreLabel(e.app, e.procName)
           sends == NeedsLookup(e.app) /\ ~LookupContextDone
       IN fan' = [fan EXCEPT
                    !.gs[g].pre = label,
                    !.gs[g].label = label,
                    !.gs[g].pc = IF sends THEN "lookup" ELSE "send",
                    !.gs[g].outcome =
                        IF NeedsLookup(e.app) /\ ~sends THEN "transport"
                        ELSE @,
                    !.gs[g].looked = IF sends THEN @ + 1 ELSE @,
                    !.lookups = IF sends THEN @ + 1 ELSE @]
    /\ UNCHANGED <<instVars, series, batch, conf, editor>>

\* The lookup of goroutine g ends; the label gets its model suffix.
Enrich_Lookup(g) ==
    /\ fan.gs[g].pc = "lookup"
    /\ \E outcome \in LookupOutcomes, name \in ModelNames :
          /\ LookupContextDone => outcome = "transport"
          /\ fan' = [fan EXCEPT
                       !.gs[g].outcome = outcome,
                       !.gs[g].label =
                           FinalLabel(@, ModelLabelOf(outcome, name)),
                       !.gs[g].body = BodyAfterLookup(outcome),
                       !.gs[g].pc = "send"]
    /\ UNCHANGED <<instVars, series, batch, conf, editor>>

\* ch <- item: goroutine g delivers while the channel has room, and
\* returns, which runs its deferred Close.
Enrich_Deliver(g) ==
    /\ fan.gs[g].pc = "send"
    /\ Len(fan.ch) < ChanCap
    /\ fan' = [fan EXCEPT
                 !.ch = Append(@, [id |-> GoroutineArgs(g).app.ID,
                                   label |-> fan.gs[g].label, src |-> g]),
                 !.gs[g].body = IF @ = "deferred" THEN "closed" ELSE @,
                 !.gs[g].pc = "done"]
    /\ UNCHANGED <<instVars, series, batch, conf, editor>>

\* The dispatch loop is over; one turn of the collecting loop.
ApplianceList_Collect ==
    /\ fan.state = "dispatch"
    /\ fan.next > Len(fan.flat)
    /\ ~AllCollected
    /\ fan.ch # <<>>
    /\ fan' = [fan EXCEPT !.result = Append(@, Head(fan.ch)),
                          !.ch = Tail(@)]
    /\ UNCHANGED <<instVars, series, batch, conf, editor>>

\* The collecting loop is over; the list is sent with status 200.
ApplianceList_Send ==
    /\ fan.state = "dispatch"
    /\ fan.next > Len(fan.flat)
    /\ AllCollected
    /\ fan' = [fan EXCEPT !.state = "sent", !.status = "200"]
    /\ UNCHANGED <<instVars, series, batch, conf, editor>>

NextFanout ==
    \/ ApplianceList_Dispatch
    \/ \E g \in 1..MaxFanout :
          /\ g <= Len(fan.gs)
          /\ \/ Enrich_Label(g)
             \/ Enrich_Lookup(g)
             \/ Enrich_Deliver(g)
    \/ ApplianceList_Collect
    \/ ApplianceList_Send

SpecFanout == InitFanout /\ [][NextFanout]_vars

\* appliance-list of src/pkg/plugin/datasource.go: one turn of the inner
\* loop appends the item of the next appliance; no lookup is made.
Pkg_ApplianceList_Flatten ==
    /\ fan.state = "dispatch"
    /\ fan.next <= Len(fan.flat)
    /\ LET e == fan.flat[fan.next]
       IN fan' = [fan EXCEPT
                    !.next = @ + 1,
                    !.result = Append(@, [id |-> e.app.ID,
                                          label |-> PreLabel(e.app, e.procName),
                                          src |-> fan.next])]
    /\ UNCHANGED <<instVars, series, batch, conf, editor>>

\* The loops are over; the list is sent with status 200.
Pkg_ApplianceList_Send ==
    /\ fan.state = "dispatch"
    /\ fan.next > Len(fan.flat)
    /\ fan' = [fan EXCEPT !.state = "sent", !.status = "200"]
    /\ UNCHANGED <<instVars, series, batch, conf, editor>>

NextFlattenPkg ==
    \/ Pkg_ApplianceList_Flatten
    \/ Pkg_ApplianceList_Send

SpecFlattenPkg == InitFanout /\ [][NextFlattenPkg]_vars

---------------------------------------------------------------------------
(* Datasource.QueryData: the loop over the queries of one request *)

MaxQueries == 3

\* q.RefID of the queries of a request; the host does not have to send
\* distinct ones.
RefIDs == {"A", "B", "C"}

\* The statuses of the DataResponse that query returns.
QueryStatuses == {"StatusOK", "StatusBadRequest", "StatusInternal"}

\* Mutant: only successful responses are saved.
StoreResponse_DropErrors(responses, refID, res) ==
    IF res # "StatusOK" THEN responses
    ELSE [r \in DOMAIN responses \cup {refID} |->
             IF r = refID THEN res ELSE responses[r]]

\* response.Responses[q.RefID] = res
StoreResponse(responses, refID, res) ==
    [r \in DOMAIN responses \cup {refID} |->
        IF r = refID THEN res ELSE responses[r]]

\* A request with its queries has arrived on a constructed instance.
InitBatch ==
    /\ now = 0
    /\ ticks = 0
    /\ token = "tokA"
    /\ tokenExpiry = now + TokenValidityMin
    /\ mutex = NoCaller
    /\ pc = [c \in Callers |-> "idle"]
    /\ call = [c \in Callers |-> FreshCall]
    /\ \E qs \in UNION {[1..n -> RefIDs] : n \in 0..MaxQueries} :
          batch = [NoBatch EXCEPT !.state = "loop", !.queries = qs]
    /\ series = NoSeries
    /\ fan = NoFan
    /\ conf = NoConf
    /\ editor = NoEditor

\* One turn of the loop: query runs for the next descriptor and its
\* response is saved under the descriptor's RefID.
QueryData_Query ==
    /\ batch.state = "loop"
    /\ batch.i <= Len(batch.queries)
    /\ \E res \in QueryStatuses :
          batch' = [batch EXCEPT
                      !.i = @ + 1,
                      !.ran = Append(@, res),
                      !.responses =
                          StoreResponse(@, batch.queries[batch.i], res)]
    /\ UNCHANGED <<instVars, series, fan, conf, editor>>

\* The loop is over: return response, nil.
QueryData_Return ==
    /\ batch.state = "loop"
    /\ batch.i > Len(batch.queries)
    /\ batch' = [batch EXCEPT !.state = "returned", !.err = "nil"]
    /\ UNCHANGED <<instVars, series, fan, conf, editor>>

NextBatch ==
    \/ QueryData_Query
    \/ QueryData_Return

SpecBatch == InitBatch /\ [][NextBatch]_vars

---------------------------------------------------------------------------
(* NewDatasource: the base URL of the instance *)

MaxUrlLen == 4

\* Strings are sequences of characters.
DefaultBaseURL ==
    <<"h", "t", "t", "p", "s", ":", "/", "/", "c", "1", ".", "a", "p", "i",
      ".", "w", "a", "g", "o", ".", "c", "o", "m", "/", "w", "e", "m", "s">>

\* The characters of the configured base URLs of the model, and the URLs.
UrlChars == {"h", ".", "/"}

ConfiguredURLs == UNION {[1..n -> UrlChars] : n \in 0..MaxUrlLen}

\* The default for an empty value, then one trailing slash removed.
NormalizeBaseURL(configured) ==
    LET u == IF configured = <<>> THEN DefaultBaseURL ELSE configured
    IN IF Len(u) > 0 /\ u[Len(u)] = "/" THEN SubSeq(u, 1, Len(u) - 1) ELSE u

\* The settings of the datasource have been unmarshalled.
InitConf ==
    /\ now = 0
    /\ ticks = 0
    /\ token = ""
    /\ tokenExpiry = 0
    /\ mutex = NoCaller
    /\ pc = [c \in Callers |-> "idle"]
    /\ call = [c \in Callers |-> FreshCall]
    /\ \E u \in ConfiguredURLs :
          conf = [NoConf EXCEPT !.state = "settings", !.configured = u]
    /\ series = NoSeries
    /\ fan = NoFan
    /\ batch = NoBatch
    /\ editor = NoEditor

\* The context of the initial token request is context.Background(), which
\* is never done; the context NewDatasource receives is discarded.
InstanceContextDone == FALSE

\* Mutant: the instance is returned although the initial token failed.
InstanceAfterTokenError_Kept == "constructed"

\* What NewDatasource returns when the initial token request failed: nil
\* and the error.
InstanceAfterTokenError == "failed"

\* NewDatasource normalises the base URL, builds the instance and calls
\* getTokenIfNeeded, which issues the initial token POST.
NewDatasource_Post ==
    /\ conf.state = "settings"
    /\ conf' = [conf EXCEPT
                  !.state = "posting",
                  !.baseURL = NormalizeBaseURL(conf.configured),
                  !.held = NormalizeBaseURL(conf.configured),
                  !.posted = IF InstanceContextDone THEN @ ELSE @ + 1]
    /\ UNCHANGED <<instVars, series, fan, batch, editor>>

\* The initial token POST ends: with body b, which is stored, and the
\* instance is returned; or with an error, which NewDatasource returns.
NewDatasource_Return ==
    /\ conf.state = "posting"
    /\ \/ /\ conf.posted > 0
          /\ \E b \in TokenBodies : token' = b
          /\ tokenExpiry' = now + TokenValidityMin
          /\ conf' = [conf EXCEPT !.state = "constructed",
                                  !.stored = @ + 1]
       \/ /\ conf' = [conf EXCEPT !.state = InstanceAfterTokenError]
          /\ UNCHANGED <<token, tokenExpiry>>
    /\ UNCHANGED <<now, ticks, mutex, pc, call, series, fan, batch, editor>>

\* A later operation on the instance: a handler builds a URL from d.baseURL
\* (getTokenIfNeeded, query and CallResource only read the field).
Operation_ReadBaseURL ==
    /\ conf.state = "constructed"
    /\ conf' = [conf EXCEPT !.state = "used"]
    /\ UNCHANGED <<instVars, series, fan, batch, editor>>

NextConf ==
    \/ NewDatasource_Post
    \/ NewDatasource_Return
    \/ Operation_ReadBaseURL

SpecConf == InitConf /\ [][NextConf]_vars

---------------------------------------------------------------------------
(* Cancellation of the inbound request *)

\* The largest number of appliances of a list whose request is cancelled.
MaxCancelFanout == 2

\* The descriptions of the cancelled appliance-list requests.
CancelDescriptions ==
    {desc \in Descriptions : ApplianceCount(desc, 1) <= MaxCancelFanout}

\* One of three situations: the instance is being built for the first
\* inbound request; an instance, its token valid or expired, serves
\* requests; appliance-list has parsed the description.
InitCancel ==
    /\ now = 0
    /\ ticks = 0
    /\ mutex = NoCaller
    /\ call = [c \in Callers |-> FreshCall]
    /\ series = NoSeries
    /\ batch = NoBatch
    /\ editor = NoEditor
    /\ \/ /\ token = ""
          /\ tokenExpiry = 0
          /\ pc = [c \in Callers |-> "off"]
          /\ conf = [NoConf EXCEPT !.state = "settings"]
          /\ fan = NoFan
       \/ /\ token = "tokA"
          /\ tokenExpiry \in {now, now + TokenValidityMin}
          /\ pc = [c \in Callers |-> "idle"]
          /\ conf = NoConf
          /\ fan = NoFan
       \/ /\ token = "tokA"
          /\ tokenExpiry = now + TokenValidityMin
          /\ pc = [c \in Callers |-> "off"]
          /\ conf = NoConf
          /\ \E desc \in CancelDescriptions :
                fan = [NoFan EXCEPT !.state = "dispatch",
                                    !.flat = FlattenFrom(desc, 1)]

\* The context NewDatasource receives is cancelled while it runs.
Cancel_NewDatasource ==
    /\ conf.state \in {"settings", "posting"}
    /\ ~conf.cancelled
    /\ conf' = [conf EXCEPT !.cancelled = TRUE]
    /\ UNCHANGED <<instVars, series, fan, batch, editor>>

\* ctx of the request served by goroutine c is cancelled while its handler
\* runs.
Cancel_Handler(c) ==
    /\ pc[c] \in {"lock", "post", "store", "req", "get"}
    /\ ~call[c].cancelled
    /\ call' = [call EXCEPT ![c].cancelled = TRUE]
    /\ UNCHANGED <<now, ticks, token, tokenExpiry, mutex, pc, auxVars>>

\* ctx of the appliance-list request is cancelled while the goroutines are
\* dispatched or collected.
Cancel_ApplianceList ==
    /\ fan.state = "dispatch"
    /\ ~fan.cancelled
    /\ fan' = [fan EXCEPT !.cancelled = TRUE]
    /\ UNCHANGED <<instVars, series, batch, conf, editor>>

\* The steps of the handler on goroutine c once it has begun.
HandlerStep(c) ==
    \/ GetTokenIfNeeded_Check(c)
    \/ GetTokenIfNeeded_Fail(c)
    \/ GetTokenIfNeeded_Response(c)
    \/ GetTokenIfNeeded_Store(c)
    \/ Query_UnmarshalFail(c)
    \/ Query_BadRequest(c)
    \/ Query_CreateFail(c)
    \/ Query_Send(c)
    \/ Query_Response(c)
    \/ CheckHealth_Ok(c)
    \/ CallResource_NotFound(c)
    \/ CallResource_BadRequest(c)
    \/ CallResource_CreateFail(c)
    \/ CallResource_Send(c)
    \/ CallResource_Response(c)

NextCancel ==
    \/ Cancel_NewDatasource
    \/ NewDatasource_Post
    \/ NewDatasource_Return
    \/ \E c \in Callers :
          \/ Query_Begin(c)
          \/ CallResource_Begin(c)
          \/ CheckHealth_Begin(c)
          \/ Cancel_Handler(c)
          \/ HandlerStep(c)
          \/ Return(c)
    \/ Cancel_ApplianceList
    \/ NextFanout

\* Every request ends (the clients have a timeout), every goroutine that
\* can run does, and a goroutine waiting in d.mutex.Lock() gets the mutex
\* (a waiter of sync.Mutex is handed the mutex once it has waited long).
FairCancel ==
    /\ WF_vars(NewDatasource_Post)
    /\ WF_vars(NewDatasource_Return)
    /\ WF_vars(NextFanout)
    /\ \A c \in Callers :
          /\ WF_vars(HandlerStep(c))
          /\ SF_vars(GetTokenIfNeeded_Check(c))

SpecCancel == InitCancel /\ [][NextCancel]_vars /\ FairCancel

---------------------------------------------------------------------------
(* QueryEditor: the cascading selections of a query *)

\* The values of the options of the dropdowns.
OptionValues == {"x", "y", "z"}

\* option?.value ?? '': the value of the option chosen, '' when the
\* selection is cleared.
Selections == OptionValues \cup {""}

\* query of a new panel.
BlankQuery ==
    [endpoint_id |-> "", appliance_id |-> "", service_uri |-> "",
     data_point |-> ""]

\* For each downstream field, the upstream values under which its present
\* value was chosen (history only).
NoneUnder == [appliance_id |-> <<>>, service_uri |-> <<>>, data_point |-> <<>>]

\* The upstream values of a field in query q.
Upstream(q, field) ==
    CASE field = "appliance_id" -> <<q.endpoint_id>>
      [] field = "service_uri"  -> <<q.endpoint_id, q.appliance_id>>
      [] field = "data_point"   ->
            <<q.endpoint_id, q.appliance_id, q.service_uri>>

\* The history after onChange(q) where field was chosen: the fields that are
\* blank in q have no history, field has the upstream values of q.
UnderAfter(under, q, field) ==
    [f \in DOMAIN under |->
        IF q[f] = "" THEN <<>>
        ELSE IF f = field THEN Upstream(q, f)
        ELSE under[f]]

\* The disabled props of the Selects of part_002 for query q.
Disabled(q) ==
    [appliance_id |-> q.endpoint_id = "",
     service_uri  |-> q.endpoint_id = "" \/ q.appliance_id = "",
     data_point   |-> q.endpoint_id = "" \/ q.appliance_id = ""
                         \/ q.service_uri = ""]

\* The same of src/src/components/QueryEditor.tsx, which has two dependent
\* Selects; the data point is a text Input.
Src_Disabled(q) ==
    [appliance_id |-> q.endpoint_id = "",
     service_uri  |-> q.endpoint_id = "" \/ q.appliance_id = ""]

\* onSelectEndpoint of part_002.
AfterSelectEndpoint(q, v) ==
    [q EXCEPT !.endpoint_id = v, !.appliance_id = "", !.service_uri = "",
              !.data_point = ""]

\* onSelectAppliance of part_002.
AfterSelectAppliance(q, v) ==
    [q EXCEPT !.appliance_id = v, !.service_uri = "", !.data_point = ""]

\* onSelectServiceUri of part_002.
AfterSelectServiceUri(q, v) ==
    [q EXCEPT !.service_uri = v, !.data_point = ""]

\* The editor is mounted on the query of a new panel.
InitEditor ==
    /\ now = 0
    /\ ticks = 0
    /\ token = "tokA"
    /\ tokenExpiry = now + TokenValidityMin
    /\ mutex = NoCaller
    /\ pc = [c \in Callers |-> "idle"]
    /\ call = [c \in Callers |-> FreshCall]
    /\ editor = [state |-> "mounted", query |-> BlankQuery,
                 under |-> NoneUnder, disabled |-> Disabled(BlankQuery)]
    /\ series = NoSeries
    /\ fan = NoFan
    /\ batch = NoBatch
    /\ conf = NoConf

\* onChange(q) after a choice in field, and the render that follows, with
\* the disabled props dis of the variant.
Changed(q, field, dis) ==
    /\ editor' = [editor EXCEPT !.query = q,
                                !.under = UnderAfter(@, q, field),
                                !.disabled = dis]
    /\ UNCHANGED <<instVars, series, fan, batch, conf>>

OnSelectEndpoint ==
    /\ editor.state = "mounted"
    /\ \E v \in Selections :
          LET q == AfterSelectEndpoint(editor.query, v)
          IN Changed(q, "endpoint_id", Disabled(q))

OnSelectAppliance ==
    /\ editor.state = "mounted"
    /\ ~editor.disabled.appliance_id
    /\ \E v \in Selections :
          LET q == AfterSelectAppliance(editor.query, v)
          IN Changed(q, "appliance_id", Disabled(q))

OnSelectServiceUri ==
    /\ editor.state = "mounted"
    /\ ~editor.disabled.service_uri
    /\ \E v \in Selections :
          LET q == AfterSelectServiceUri(editor.query, v)
          IN Changed(q, "service_uri", Disabled(q))

OnSelectDataPoint ==
    /\ editor.state = "mounted"
    /\ ~editor.disabled.data_point
    /\ \E v \in Selections :
          LET q == [editor.query EXCEPT !.data_point = v]
          IN Changed(q, "data_point", Disabled(q))

NextEditor ==
    \/ OnSelectEndpoint
    \/ OnSelectAppliance
    \/ OnSelectServiceUri
    \/ OnSelectDataPoint

SpecEditor == InitEditor /\ [][NextEditor]_vars

\* The editor of src/src/components/QueryEditor.tsx, mounted on the query of
\* a new panel.
InitEditorSrc ==
    /\ now = 0
    /\ ticks = 0
    /\ token = "tokA"
    /\ tokenExpiry = now + TokenValidityMin
    /\ mutex = NoCaller
    /\ pc = [c \in Callers |-> "idle"]
    /\ call = [c \in Callers |-> FreshCall]
    /\ editor = [state |-> "mounted", query |-> BlankQuery,
                 under |-> NoneUnder, disabled |-> Src_Disabled(BlankQuery)]
    /\ series = NoSeries
    /\ fan = NoFan
    /\ batch = NoBatch
    /\ conf = NoConf

Src_OnSelectEndpoint ==
    /\ editor.state = "mounted"
    /\ \E v \in Selections :
          LET q == [editor.query EXCEPT !.endpoint_id = v,
                                        !.appliance_id = ""]
          IN Changed(q, "endpoint_id", Src_Disabled(q))

Src_OnSelectAppliance ==
    /\ editor.state = "mounted"
    /\ ~editor.disabled.appliance_id
    /\ \E v \in Selections :
          LET q == [editor.query EXCEPT !.appliance_id = v]
          IN Changed(q, "appliance_id", Src_Disabled(q))

Src_OnSelectServiceUri ==
    /\ editor.state = "mounted"
    /\ ~editor.disabled.service_uri
    /\ \E v \in Selections :
          LET q == [editor.query EXCEPT !.service_uri = v]
          IN Changed(q, "service_uri", Src_Disabled(q))

\* onFieldChange('data_point'): the text typed into the Input.
Src_OnDataPointChange ==
    /\ editor.state = "mounted"
    /\ \E v \in Selections :
          LET q == [editor.query EXCEPT !.data_point = v]
          IN Changed(q, "data_point", Src_Disabled(q))

NextEditorSrc ==
    \/ Src_OnSelectEndpoint
    \/ Src_OnSelectAppliance
    \/ Src_OnSelectServiceUri
    \/ Src_OnDataPointChange

SpecEditorSrc == InitEditorSrc /\ [][NextEditorSrc]_vars

---------------------------------------------------------------------------
(* appliance-list: the completion channel, goroutines counted by position *)

\* The largest number of appliances of a description; it exceeds ChanCap.
MaxListed == 34

\* The fan-out for n appliances before the first go statement.  The
\* goroutines run the same code, so the state counts them by position:
\* before the send statement, at the send statement, returned.
CountedFan(n) ==
    [state |-> "dispatch", n |-> n, count |-> 0, running |-> 0,
     sending |-> 0, returned |-> 0, ch |-> 0, collected |-> 0]

\* make(chan map[string]string, 32)
ChanCapacity == ChanCap

\* Mutant: the collecting loop takes at most as many items as the channel
\* holds.
CollectTurns_Capacity == IF fan.count < ChanCap THEN fan.count ELSE ChanCap

\* The turns of the collecting loop: for i := 0; i < count; i++.
CollectTurns == fan.count

InitChannel ==
    /\ now = 0
    /\ ticks = 0
    /\ token = "tokA"
    /\ tokenExpiry = now + TokenValidityMin
    /\ mutex = NoCaller
    /\ pc = [c \in Callers |-> "idle"]
    /\ call = [c \in Callers |-> FreshCall]
    /\ \E n \in 0..MaxListed : fan = CountedFan(n)
    /\ series = NoSeries
    /\ batch = NoBatch
    /\ conf = NoConf
    /\ editor = NoEditor

\* One turn of the inner loop: count++ and the go statement.
Counted_Dispatch ==
    /\ fan.state = "dispatch"
    /\ fan.count < fan.n
    /\ fan' = [fan EXCEPT !.count = @ + 1, !.running = @ + 1]
    /\ UNCHANGED <<instVars, series, batch, conf, editor>>

\* A goroutine has its label, its lookup if any has ended: it reaches the
\* send statement.
Counted_Enrich ==
    /\ fan.running > 0
    /\ fan' = [fan EXCEPT !.running = @ - 1, !.sending = @ + 1]
    /\ UNCHANGED <<instVars, series, batch, conf, editor>>

\* ch <- item of a goroutine goes through while the channel has room; the
\* goroutine returns.
Counted_Deliver ==
    /\ fan.sending > 0
    /\ fan.ch < ChanCapacity
    /\ fan' = [fan EXCEPT !.sending = @ - 1, !.ch = @ + 1,
                          !.returned = @ + 1]
    /\ UNCHANGED <<instVars, series, batch, conf, editor>>

\* The dispatch loop is over; one turn of the collecting loop.
Counted_Collect ==
    /\ fan.state = "dispatch"
    /\ fan.count = fan.n
    /\ fan.collected < CollectTurns
    /\ fan.ch > 0
    /\ fan' = [fan EXCEPT !.ch = @ - 1, !.collected = @ + 1]
    /\ UNCHANGED <<instVars, series, batch, conf, editor>>

\* The collecting loop is over; the list is sent.
Counted_Send ==
    /\ fan.state = "dispatch"
    /\ fan.count = fan.n
    /\ fan.collected = CollectTurns
    /\ fan' = [fan EXCEPT !.state = "sent"]
    /\ UNCHANGED <<instVars, series, batch, conf, editor>>

NextChannel ==
    \/ Counted_Dispatch
    \/ Counted_Enrich
    \/ Counted_Deliver
    \/ Counted_Collect
    \/ Counted_Send

SpecChannel == InitChannel /\ [][NextChannel]_vars

\* The handler and every goroutine keep running, and every model lookup
\* ends (its client has a timeout of 10 s).
FairChannel ==
    /\ WF_vars(Counted_Dispatch)
    /\ WF_vars(Counted_Enrich)
    /\ WF_vars(Counted_Deliver)
    /\ WF_vars(Counted_Collect)
    /\ WF_vars(Counted_Send)

SpecChannelFair == SpecChannel /\ FairChannel

---------------------------------------------------------------------------
(* QueryEditor: the list requests of the dropdowns *)

\* The selections the user makes while the editor is mounted.
MaxChanges == 4

\* The dropdowns whose options are fetched for the selections above them.
ListFields == {"appliance_id", "service_uri", "data_point"}

\* setAppliances([]), setServiceUris([]), setDataPoints([]).
NoOptions == <<>>

\* The test at the head of the effect of field: a selection above it is
\* blank.
UpstreamBlank(q, field) ==
    \E i \in 1..Len(Upstream(q, field)) : Upstream(q, field)[i] = ""

\* The effects that run after onChange(q): those with a dependency that
\* changed.
EffectsRun(old, q) ==
    {f \in ListFields : Upstream(q, f) # Upstream(old, f)}

\* The editor after onChange(q) and the effects that follow: an effect with
\* a blank selection above empties its options; any other one calls
\* getResource for the selections of q.  Requests already pending are left
\* pending.  The options of a dropdown are written as the selections they
\* were fetched for.
AfterEffects(ed, q) ==
    LET ran == EffectsRun(ed.query, q)
    IN [ed EXCEPT
          !.query = q,
          !.disabled = Disabled(q),
          !.changes = @ + 1,
          !.shown = [f \in ListFields |->
                        IF f \in ran /\ UpstreamBlank(q, f) THEN NoOptions
                        ELSE @[f]],
          !.last = [f \in ListFields |->
                       IF f \notin ran THEN @[f]
                       ELSE IF UpstreamBlank(q, f) THEN "none"
                       ELSE "pending"],
          !.pending =
              @ \o (IF "appliance_id" \in ran
                       /\ ~UpstreamBlank(q, "appliance_id")
                    THEN <<[list |-> "appliance_id",
                            for |-> Upstream(q, "appliance_id")]>>
                    ELSE <<>>)
                \o (IF "service_uri" \in ran
                       /\ ~UpstreamBlank(q, "service_uri")
                    THEN <<[list |-> "service_uri",
                            for |-> Upstream(q, "service_uri")]>>
                    ELSE <<>>)
                \o (IF "data_point" \in ran
                       /\ ~UpstreamBlank(q, "data_point")
                    THEN <<[list |-> "data_point",
                            for |-> Upstream(q, "data_point")]>>
                    ELSE <<>>)]

\* The editor is mounted on the query of a new panel; its effects have
\* emptied the three lists.
InitEditorFetch ==
    /\ now = 0
    /\ ticks = 0
    /\ token = "tokA"
    /\ tokenExpiry = now + TokenValidityMin
    /\ mutex = NoCaller
    /\ pc = [c \in Callers |-> "idle"]
    /\ call = [c \in Callers |-> FreshCall]
    /\ editor = [state |-> "mounted", query |-> BlankQuery,
                 disabled |-> Disabled(BlankQuery), changes |-> 0,
                 shown |-> [f \in ListFields |-> NoOptions],
                 last |-> [f \in ListFields |-> "none"],
                 pending |-> <<>>]
    /\ series = NoSeries
    /\ fan = NoFan
    /\ batch = NoBatch
    /\ conf = NoConf

\* The user chooses in a dropdown; onChange and the effects follow.
Fetch_Changed(q) ==
    /\ editor.changes < MaxChanges
    /\ editor' = AfterEffects(editor, q)
    /\ UNCHANGED <<instVars, series, fan, batch, conf>>

Fetch_OnSelectEndpoint ==
    \E v \in Selections : Fetch_Changed(AfterSelectEndpoint(editor.query, v))

Fetch_OnSelectAppliance ==
    /\ ~editor.disabled.appliance_id
    /\ \E v \in Selections :
          Fetch_Changed(AfterSelectAppliance(editor.query, v))

Fetch_OnSelectServiceUri ==
    /\ ~editor.disabled.service_uri
    /\ \E v \in Selections :
          Fetch_Changed(AfterSelectServiceUri(editor.query, v))

Fetch_OnSelectDataPoint ==
    /\ ~editor.disabled.data_point
    /\ \E v \in Selections :
          Fetch_Changed([editor.query EXCEPT !.data_point = v])

\* The sequence s without its i-th element.
Without(s, i) == SubSeq(s, 1, i - 1) \o SubSeq(s, i + 1, Len(s))

\* What the response of request r tells about the request made for the
\* selections of now (history only).
LastAfter(ed, r, outcome) ==
    [ed.last EXCEPT
        ![r.list] = IF r.for = Upstream(ed.query, r.list) THEN outcome
                    ELSE @]

\* .then of a pending getResource: the options of the list are set to the
\* result, whichever selections the request was made for.
GetResource_Then ==
    \E i \in 1..Len(editor.pending) :
        LET r == editor.pending[i]
        IN /\ editor' = [editor EXCEPT
                           !.shown[r.list] = r.for,
                           !.last = LastAfter(editor, r, "ok"),
                           !.pending = Without(@, i)]
           /\ UNCHANGED <<instVars, series, fan, batch, conf>>

\* .catch of a pending getResource: the error of the list is set, its
\* options stay.
GetResource_Catch ==
    \E i \in 1..Len(editor.pending) :
        LET r == editor.pending[i]
        IN /\ editor' = [editor EXCEPT
                           !.last = LastAfter(editor, r, "failed"),
                           !.pending = Without(@, i)]
           /\ UNCHANGED <<instVars, series, fan, batch, conf>>

NextEditorFetch ==
    \/ Fetch_OnSelectEndpoint
    \/ Fetch_OnSelectAppliance
    \/ Fetch_OnSelectServiceUri
    \/ Fetch_OnSelectDataPoint
    \/ GetResource_Then
    \/ GetResource_Catch

SpecEditorFetch == InitEditorFetch /\ [][NextEditorFetch]_vars

---------------------------------------------------------------------------
(* Properties of the token manager *)

\* C1 (as stated): a getTokenIfNeeded call whose check found
\* now < expiry - 1 minute issues no token POST, whatever the cached token
\* string is.
C1_NoPostWhileUnexpired ==
    \A c \in Callers : pc[c] = "post" => ~call[c].chkFresh

\* C1 (amended): a getTokenIfNeeded call whose check found a non-empty cached
\* token and now < expiry - 1 minute issues no token POST; a call that issues
\* one found the cached token empty, or expired or within its last minute.
C1_NoPostWhileCachedAndUnexpired ==
    \A c \in Callers :
        pc[c] = "post" => ~(call[c].chkTok /\ call[c].chkFresh)

\* A call has returned from getTokenIfNeeded on the fast path: the cached
\* token was non-empty and unexpired, and no request was issued.
C1_Witness ==
    \E c \in Callers :
        /\ pc[c] = "req"
        /\ call[c].checked
        /\ call[c].posted = 0
        /\ ticks > 0

\* C2: every data or list request is sent after a token check of the same
\* operation has passed (the check found the token unexpired or completed a
\* refresh); no request is sent, without such a check, with a token the
\* instance regards as expired or within the last minute of its validity.
C2_RequestFollowsTokenCheck ==
    \A c \in Callers :
        pc[c] = "get" => (call[c].checked \/ ~call[c].stale)

\* C3: at most one token POST is in flight on one instance.
C3_AtMostOneTokenPost ==
    Cardinality({c \in Callers : pc[c] = "post"}) <= 1

\* One caller's token POST is in flight while another caller, serving a
\* different kind of request, is blocked in d.mutex.Lock().
C3_Witness ==
    \E c, d \in Callers :
        /\ c # d
        /\ pc[c] = "post"
        /\ pc[d] = "lock"
        /\ call[c].op # call[d].op

\* C4 (as stated): a caller that waited on the lock while another caller's
\* refresh was in progress issues no token POST of its own.
C4_WaiterNeverPosts ==
    \A c \in Callers : pc[c] = "post" => call[c].behind = "none"

\* C4 (amended): a caller that waited on the lock behind a refresh that
\* stored a non-empty token, and that runs its own check less than
\* validity - 1 minute after that store, issues no token POST of its own.
C4_WaiterBehindStoredTokenNeverPosts ==
    \A c \in Callers : pc[c] = "post" => ~call[c].within

\* A caller that waited behind a successful refresh has returned from
\* getTokenIfNeeded without a request of its own.
C4_Witness ==
    \E c \in Callers :
        /\ pc[c] = "req"
        /\ call[c].within
        /\ call[c].posted = 0

\* C5: no read of d.token for an Authorization header observes the token
\* while a refresh is writing it.
C5_NoTornTokenRead ==
    \A c \in Callers : call[c].auth # Torn

\* C6: a refresh attempt that fails leaves d.token and d.tokenExpiry as they
\* were before the attempt and returns an error to the caller.
C6_FailedRefreshKeepsCache ==
    [][\A c \in Callers :
          (pc[c] = "post" /\ pc'[c] = "done") =>
              /\ token' = token
              /\ tokenExpiry' = tokenExpiry
              /\ call'[c].tokErr]_vars

\* A refresh attempt has failed on an instance that holds a token.
C6_Witness ==
    \E c \in Callers :
        /\ pc[c] = "done"
        /\ call[c].tokErr
        /\ token # ""

---------------------------------------------------------------------------
(* Properties of the handlers *)

\* C7: a query whose descriptor has a blank identifying field returns a
\* bad-request error and issues no HTTP request, neither a series GET nor a
\* token POST.
C7_BlankQueryIssuesNoRequest ==
    \A c \in Callers :
        (pc[c] = "done" /\ call[c].op = "query" /\ call[c].invalid) =>
            /\ call[c].res = "StatusBadRequest"
            /\ call[c].posted = 0
            /\ call[c].sent = 0

\* C8: a list call that lacks a required parameter is answered with 400 and
\* issues no HTTP request before the answer.
C8_MissingParamIssuesNoRequest ==
    \A c \in Callers :
        (pc[c] = "done" /\ call[c].op = "resource" /\ call[c].invalid) =>
            /\ call[c].res = "400"
            /\ call[c].posted = 0
            /\ call[c].sent = 0

\* C9: an operation whose token acquisition failed issues no data or list
\* request and reports an internal error: query StatusInternal, CallResource
\* 500, CheckHealth the error status.
C9_TokenFailureIsInternal ==
    \A c \in Callers :
        call[c].tokErr =>
            /\ pc[c] = "done"
            /\ call[c].sent = 0
            /\ call[c].op = "query" => call[c].res = "StatusInternal"
            /\ call[c].op = "resource" => call[c].res = "500"
            /\ call[c].op = "health" => call[c].res = "HealthStatusError"

\* A query and a list call have both ended on a failed token acquisition.
C9_Witness ==
    \E c, d \in Callers :
        /\ call[c].tokErr /\ call[c].op = "query"
        /\ call[d].tokErr /\ call[d].op = "resource"

---------------------------------------------------------------------------
(* Properties of the series conversion *)

\* The coercion the claim states: a number maps to itself, true to 1.0 and
\* false to 0.0, a string that parses as a float to that float, any other
\* string and any other shape to 0.0.
ClaimedValue(v) ==
    IF v.kind = "float64" THEN v.num
    ELSE IF v.kind = "bool" THEN (IF v.b THEN Scale ELSE 0)
    ELSE IF v.kind = "string" /\ ParseFloat(v.str).ok
         THEN ParseFloat(v.str).val
    ELSE 0

\* C10: the frame built from a list of points has as many timestamps and as
\* many values as the list has points, in the order of the list, and the i-th
\* value is the coercion of the i-th upstream value.
C10_FrameIsPointwiseCoercion ==
    series.state = "framed" =>
        /\ Len(series.times) = Len(series.points)
        /\ Len(series.values) = Len(series.points)
        /\ \A i \in 1..Len(series.points) :
              /\ series.times[i] = series.points[i].time
              /\ series.values[i] = ClaimedValue(series.points[i].value)

---------------------------------------------------------------------------
(* Properties of the appliance list *)

\* The label the claim states for an appliance before enrichment: the
\* friendly name, or the id when it is blank, followed by " (processName)"
\* exactly when the process has a non-blank name.
ClaimedPreLabel(e) ==
    <<IF e.app.FriendlyName # "" THEN e.app.FriendlyName ELSE e.app.ID>>
    \o (IF e.procName # "" THEN <<" (", e.procName, ")">> ELSE <<>>)

\* The label ends in " [modelName]" for some model name.
EndsInModel(label) ==
    /\ Len(label) >= 3
    /\ \E name \in ModelNames :
          SubSeq(label, Len(label) - 2, Len(label)) = <<" [", name, "]">>

\* C11: every appliance's pre-enrichment label is its friendly name, or its
\* id when the friendly name is blank, followed by " (processName)" exactly
\* when the owning process has a non-blank name; the label delivered for an
\* appliance whose model reference is 0 has no " [model]" suffix.
C11_PreEnrichmentLabel ==
    /\ \A g \in 1..Len(fan.gs) :
          fan.gs[g].pc # "start" =>
              fan.gs[g].pre = ClaimedPreLabel(fan.flat[g])
    /\ \A i \in 1..Len(fan.result) :
          LET g == fan.result[i].src
              claimed == ClaimedPreLabel(fan.flat[g])
          IN /\ SubSeq(fan.result[i].label, 1, Len(claimed)) = claimed
             /\ fan.flat[g].app.ApplianceReference = 0 =>
                    /\ fan.result[i].label = claimed
                    /\ ~EndsInModel(fan.result[i].label)

\* The list has been sent for two processes, one named with an appliance
\* without friendly name, one unnamed with an appliance with friendly name,
\* neither appliance with a model reference.
C11_Witness ==
    /\ fan.state = "sent"
    /\ Len(fan.result) = 2
    /\ \E i, j \in 1..2 :
          /\ fan.result[i].label = <<"a1", " (", "HVAC", ")">>
          /\ fan.result[j].label = <<"Pump">>
          /\ fan.flat[fan.result[i].src].app.ApplianceReference = 0
          /\ fan.flat[fan.result[j].src].app.ApplianceReference = 0

\* C12: for an appliance with a non-zero model reference, the label of the
\* list sent ends in " [modelName]" exactly when its lookup answered 200 with
\* a decodable, non-empty friendly name; after any other end of the lookup
\* the appliance is listed with its pre-enrichment label; the list is sent
\* with status 200 and has an entry for the appliance.
C12_EnrichedExactlyOnNamedLookup ==
    fan.state = "sent" =>
        /\ fan.status = "200"
        /\ \A g \in 1..Len(fan.flat) :
              fan.flat[g].app.ApplianceReference # 0 =>
                  \E i \in 1..Len(fan.result) :
                      /\ fan.result[i].src = g
                      /\ EndsInModel(fan.result[i].label)
                             <=> fan.gs[g].outcome = "named"
                      /\ fan.gs[g].outcome = "named" =>
                             \E name \in ModelNames :
                                 fan.result[i].label =
                                     fan.gs[g].pre \o <<" [", name, "]">>
                      /\ fan.gs[g].outcome # "named" =>
                             fan.result[i].label = fan.gs[g].pre

\* The list has been sent with one appliance enriched and another whose
\* lookup answered with a status other than 200.
C12_Witness ==
    /\ fan.state = "sent"
    /\ \E g, h \in 1..Len(fan.gs) :
          /\ fan.gs[g].outcome = "named"
          /\ fan.gs[h].outcome = "status"
          /\ \E i \in 1..Len(fan.result) :
                fan.result[i].src = h /\ fan.result[i].label = fan.gs[h].pre

\* Each appliance of the description has exactly one entry in the result.
OneEntryPerAppliance ==
    /\ Len(fan.result) = Len(fan.flat)
    /\ \A g \in 1..Len(fan.flat) :
          Cardinality({i \in 1..Len(fan.result) : fan.result[i].src = g}) = 1

\* C13 (as stated): for a description with N appliances, the list is sent
\* after exactly N model lookup calls and has exactly N entries, one per
\* appliance.
C13_NLookupsNEntries ==
    fan.state = "sent" =>
        /\ fan.lookups = Len(fan.flat)
        /\ OneEntryPerAppliance

\* C13 (amended): for a description with N appliances, exactly N enrichment
\* goroutines are dispatched, exactly one model lookup call is issued for
\* each appliance with a non-zero model reference and none for the others,
\* and the list sent has exactly N entries, one per appliance, in every
\* order of dispatch and completion.
C13_NGoroutinesNEntries ==
    fan.state = "sent" =>
        /\ fan.count = Len(fan.flat)
        /\ Len(fan.gs) = Len(fan.flat)
        /\ fan.lookups =
              Cardinality({g \in 1..Len(fan.flat) :
                              fan.flat[g].app.ApplianceReference # 0})
        /\ \A g \in 1..Len(fan.flat) :
              fan.flat[g].app.ApplianceReference = 0 =>
                  fan.gs[g].outcome = "none"
        /\ OneEntryPerAppliance

\* The list has been sent for three appliances, not all with a model
\* reference, whose items arrived in another order than they were dispatched.
C13_Witness ==
    /\ fan.state = "sent"
    /\ Len(fan.flat) = MaxFanout
    /\ fan.lookups \in 1..(MaxFanout - 1)
    /\ fan.result[1].src # 1

\* C14: when the list is sent, every dispatched goroutine has delivered its
\* item and the number of items collected equals the number of goroutines
\* dispatched; no list with fewer items is sent.
C14_SentAfterAllDelivered ==
    fan.state = "sent" =>
        /\ Len(fan.result) = Len(fan.gs)
        /\ Len(fan.result) = fan.count
        /\ fan.ch = <<>>
        /\ \A g \in 1..Len(fan.gs) : fan.gs[g].pc = "done"
        /\ fan.next > Len(fan.flat)

\* The collecting loop is waiting on an empty channel while a lookup is
\* still in flight, with one item already collected.
C14_Witness ==
    /\ fan.state = "dispatch"
    /\ fan.next > Len(fan.flat)
    /\ fan.ch = <<>>
    /\ Len(fan.result) = 1
    /\ \E g \in 1..Len(fan.gs) : fan.gs[g].pc = "lookup"

---------------------------------------------------------------------------
(* Properties of the list operations *)

\* C15 (as stated): a list call whose primary GET was answered with a status
\* other than 200 is answered with exactly that status, never with 500 in
\* its place.
C15_UpstreamStatusPassedThrough ==
    \A c \in Callers :
        (pc[c] = "done" /\ call[c].op = "resource"
            /\ call[c].up \in UpstreamErrStatus) =>
                call[c].res = call[c].up

\* C15 (amended): a list call whose primary GET was answered with a status
\* other than 200 and whose body was read to its end is answered with
\* exactly that status (and body); when the body cannot be read to its end
\* the call is answered with 500 whatever the upstream's status was.
C15_UpstreamStatusPassedThroughOnceRead ==
    \A c \in Callers :
        (pc[c] = "done" /\ call[c].op = "resource"
            /\ call[c].up \in UpstreamErrStatus) =>
                /\ call[c].full => call[c].res = call[c].up
                /\ ~call[c].full => call[c].res = "500"

\* Two list operations of different paths have each passed an upstream
\* status other than 200 through.
C15_Witness ==
    \E c, d \in Callers :
        /\ pc[c] = "done" /\ pc[d] = "done"
        /\ call[c].path = "appliance-list" /\ call[d].path = "datapoint-list"
        /\ call[c].up = "401" /\ call[c].full /\ call[c].res = "401"
        /\ call[d].up = "503" /\ call[d].full /\ call[d].res = "503"

---------------------------------------------------------------------------
(* Properties of QueryData *)

\* The last descriptor of the list that carries reference id r.
LastWith(r) ==
    CHOOSE j \in 1..Len(batch.queries) :
        /\ batch.queries[j] = r
        /\ \A k \in (j + 1)..Len(batch.queries) : batch.queries[k] # r

---------------------------------------------------------------------------
(* Properties of CheckHealth *)

\* C17: a CheckHealth call reports ok only after a token request that it
\* issued itself against the token endpoint has succeeded; a call that ends
\* without such a request, or whose request failed, reports the error status.
C17_HealthOkOnlyAfterTokenRequest ==
    \A c \in Callers :
        (pc[c] = "done" /\ call[c].op = "health") =>
            /\ call[c].res \in {"HealthStatusOk", "HealthStatusError"}
            /\ call[c].res = "HealthStatusOk" =>
                   (call[c].posted >= 1 /\ ~call[c].tokErr)
            /\ call[c].tokErr => call[c].res = "HealthStatusError"

\* C26: the expiry recorded at a successful refresh is at most the upstream
\* validity of the token after the refresh, and getTokenIfNeeded returns
\* without a request only while the cached token, stored at tokenExpiry
\* minus the validity window, is younger than the upstream validity minus
\* the safety margin.
C26_ExpiryWithinUpstreamValidity ==
    [][\A c \in Callers :
          /\ (pc[c] = "store" /\ pc'[c] = "req") =>
                tokenExpiry' <= now + UpstreamValidityMin
          /\ (pc[c] = "lock" /\ pc'[c] = "req") =>
                now - (tokenExpiry - TokenValidityMin)
                    < UpstreamValidityMin - SafetyMarginMin]_vars

---------------------------------------------------------------------------
(* Properties of the configuration *)

\* C18: the base URL held by a constructed instance is the default when the
\* configured value is empty, never ends in '/', is never empty, and is the
\* same after a later operation on the instance.
C18_BaseURLNormalized ==
    conf.state \in {"constructed", "used"} =>
        /\ conf.configured = <<>> => conf.baseURL = DefaultBaseURL
        /\ conf.baseURL # <<>>
        /\ conf.baseURL[Len(conf.baseURL)] # "/"
        /\ conf.baseURL = conf.held

---------------------------------------------------------------------------
(* Properties of the query editor *)

\* C19: after any sequence of selections, every non-blank downstream
\* selection was made under the upstream values selected now, which are all
\* non-blank (so a change of the endpoint has cleared appliance, service URI
\* and data point, a change of the appliance service URI and data point, a
\* change of the service URI the data point), and a dropdown that is
\* enabled has non-blank selections in all the fields above it.
C19_DownstreamMadeUnderCurrentUpstream ==
    editor.state = "mounted" =>
        /\ \A f \in {"appliance_id", "service_uri", "data_point"} :
              LET above == Upstream(editor.query, f)
              IN editor.query[f] # "" =>
                     /\ editor.under[f] = above
                     /\ \A i \in 1..Len(above) : above[i] # ""
        /\ \A f \in DOMAIN editor.disabled :
              LET above == Upstream(editor.query, f)
              IN ~editor.disabled[f] =>
                     \A i \in 1..Len(above) : above[i] # ""

---------------------------------------------------------------------------
(* Properties of the resource paths *)

\* C20: a resource call for the path datapoint-unit is served like the four
\* list paths: it is not answered with 404.
C20_DatapointUnitServed ==
    \A c \in Callers :
        (pc[c] = "done" /\ call[c].op = "resource"
            /\ call[c].path = "datapoint-unit") =>
                call[c].res # "404"

\* C21: during appliance-list a model lookup GET is issued for an appliance
\* if and only if its model reference is non-zero, and at most once: a
\* goroutine that is past its label has issued one lookup with a reference
\* and none without, and when the list is sent the number of lookups equals
\* the number of appliances with a non-zero reference.
C21_LookupIffReferenced ==
    /\ \A g \in 1..Len(fan.gs) :
          /\ fan.gs[g].looked <= 1
          /\ fan.gs[g].pc # "start" =>
                (fan.gs[g].looked = 1
                    <=> fan.flat[g].app.ApplianceReference # 0)
    /\ fan.state = "sent" =>
          fan.lookups =
              Cardinality({g \in 1..Len(fan.flat) :
                              fan.flat[g].app.ApplianceReference # 0})

\* The list has been sent for appliances of which one has a model reference
\* and was looked up, and another has none and was not.
C21_Witness ==
    /\ fan.state = "sent"
    /\ \E g, h \in 1..Len(fan.gs) :
          /\ fan.flat[g].app.ApplianceReference # 0
          /\ fan.gs[g].looked = 1
          /\ fan.flat[h].app.ApplianceReference = 0
          /\ fan.gs[h].looked = 0

\* C22: no operation re-sends a failed upstream request: a call issues at
\* most one token POST and at most one primary GET; a call that ended on a
\* failed token POST carries its token error and issued no GET, and a call
\* whose primary GET met a transport error or a status other than 200 ended
\* with a failure outcome (internal error on the series path).
C22_NoSecondAttempt ==
    \A c \in Callers :
        /\ call[c].posted <= 1
        /\ call[c].sent <= 1
        /\ call[c].tokErr =>
              /\ pc[c] = "done"
              /\ call[c].posted = 1
              /\ call[c].sent = 0
              /\ call[c].res = TokenErrorResult(call[c].op)
        /\ (pc[c] = "done" /\ call[c].sent = 1 /\ call[c].up # "200") =>
              /\ call[c].op = "query" => call[c].res = "StatusInternal"
              /\ call[c].op = "resource" =>
                    call[c].res \in {"500"} \cup UpstreamErrStatus

\* One call ended on a failed token POST, another on a primary GET that met
\* a transport error, each after a single request.
C22_Witness ==
    \E c, d \in Callers :
        /\ pc[c] = "done" /\ call[c].tokErr /\ call[c].posted = 1
        /\ pc[d] = "done" /\ call[d].sent = 1 /\ call[d].up = "none"
        /\ call[d].op = "query" /\ call[d].res = "StatusInternal"

\* C25: NewDatasource yields an instance only when the initial token request
\* succeeded: an instance that exists, or serves an operation, holds a token
\* and an expiry stored by a successful refresh, and after a failed initial
\* request nothing was stored and no instance exists.
C25_InstanceOnlyWithToken ==
    /\ conf.state \in {"constructed", "used"} =>
          /\ conf.posted = 1
          /\ conf.stored = 1
          /\ token \in TokenBodies
          /\ tokenExpiry = now + TokenValidityMin
    /\ conf.state = "failed" =>
          /\ conf.stored = 0
          /\ token = ""
          /\ tokenExpiry = 0

\* An instance built after a successful initial token request has served an
\* operation.
C25_Witness ==
    /\ conf.state = "used"
    /\ conf.stored = 1
    /\ token = "tokA"

\* C28: the body of every model-lookup response a goroutine obtained is
\* closed by the time the goroutine has returned, whatever the status of
\* the response, so when the list is sent no body is left open.
C28_LookupBodiesClosed ==
    \A g \in 1..Len(fan.gs) :
        fan.gs[g].pc = "done" => fan.gs[g].body \in {"none", "closed"}

\* The labels the claim allows for appliance g: its own pre-enrichment
\* label, followed by " [modelName]" when its own lookup gave a name.
OwnLabels(g) ==
    IF fan.flat[g].app.ApplianceReference # 0 /\ fan.gs[g].outcome = "named"
    THEN {ClaimedPreLabel(fan.flat[g]) \o <<" [", name, "]">> :
             name \in ModelNames}
    ELSE {ClaimedPreLabel(fan.flat[g])}

\* C29: in every interleaving of the goroutines, each item delivered pairs
\* the id of an appliance with the label derived from that same appliance,
\* its own process name and its own lookup, no two items come from the same
\* appliance, and the set of (id, label) entries of the list sent is the
\* set of these pairs over the appliances of the description.
C29_EntriesPairOwnIdAndLabel ==
    LET items == fan.ch \o fan.result
    IN /\ \A i \in 1..Len(items) :
             /\ items[i].id = fan.flat[items[i].src].app.ID
             /\ items[i].label \in OwnLabels(items[i].src)
       /\ \A i, j \in 1..Len(items) :
             items[i].src = items[j].src => i = j
       /\ fan.state = "sent" =>
             {<<fan.result[i].id, fan.result[i].label>> :
                 i \in 1..Len(fan.result)}
             = UNION {{<<fan.flat[g].app.ID, l>> : l \in OwnLabels(g)} :
                         g \in 1..Len(fan.flat)}

\* The list has been sent for three appliances of two ids whose names,
\* processes and lookups differ, collected in another order than they were
\* dispatched.
C29_Witness ==
    /\ fan.state = "sent"
    /\ Len(fan.flat) = MaxFanout
    /\ fan.flat[1].app.ID # fan.flat[2].app.ID
    /\ fan.flat[1].app.FriendlyName # fan.flat[2].app.FriendlyName
    /\ fan.flat[1].procName # fan.flat[3].procName
    /\ fan.gs[1].outcome = "named"
    /\ fan.gs[2].outcome = "none"
    /\ fan.gs[3].outcome = "status"
    /\ fan.result[1].src = 3
    /\ fan.result[2].src = 1

---------------------------------------------------------------------------
(* Properties of cancellation *)

\* C23: every upstream request issued for an inbound request is bound to
\* the context of that request: once the context is cancelled no token
\* POST, primary GET or model lookup is started for the operation, and the
\* operation returns (its requests in flight have ended).
C23_BoundToRequestContext ==
    /\ [][/\ conf.cancelled => conf'.posted = conf.posted
          /\ \A c \in Callers :
                (call[c].cancelled /\ call'[c].cancelled) =>
                    /\ call'[c].posted = call[c].posted
                    /\ call'[c].sent = call[c].sent
          /\ fan.cancelled => fan'.lookups = fan.lookups]_vars
    /\ conf.cancelled ~> conf.state \in {"constructed", "failed"}
    /\ \A c \in Callers : call[c].cancelled ~> pc[c] \in {"done", "idle"}
    /\ fan.cancelled ~> fan.state = "sent"

---------------------------------------------------------------------------
(* Properties of the completion channel *)

\* C24: the completion channel has room for all N results of the request:
\* no goroutine is ever at its send statement while the channel is full,
\* whether or not the collecting loop has begun.
C24_NoGoroutineBlocksOnSend ==
    ~(fan.sending > 0 /\ fan.ch = ChanCapacity)

\* C27: for every number of appliances, also above the capacity of the
\* channel, the list is eventually sent and from then on every dispatched
\* goroutine has returned: none stays at its send statement.
C27_SentAndAllReturned ==
    /\ <>(fan.state = "sent")
    /\ [](fan.state = "sent" =>
            /\ fan.returned = fan.n
            /\ fan.running = 0
            /\ fan.sending = 0)

\* The list is sent for more appliances than the channel holds; all the
\* goroutines have returned and all the items were collected.
C27_Witness ==
    /\ fan.state = "sent"
    /\ fan.n > ChanCap
    /\ fan.returned = fan.n
    /\ fan.collected = fan.n

---------------------------------------------------------------------------
(* Properties of the list requests of the editor *)

\* C30: once every pending list request has completed, a dropdown with a
\* blank selection above it shows no options, and a dropdown whose request
\* for the selections of now has succeeded shows the options fetched for
\* these selections, in whatever order the responses arrived.
C30_OptionsOfCurrentSelection ==
    editor.pending = <<>> =>
        \A f \in ListFields :
            /\ UpstreamBlank(editor.query, f) => editor.shown[f] = NoOptions
            /\ (~UpstreamBlank(editor.query, f) /\ editor.last[f] = "ok") =>
                  editor.shown[f] = Upstream(editor.query, f)

===========================================================================
